---- MODULE Spec2Model ----
(***************************************************************************)
(* Model of the DOCX placeholder service:                                  *)
(*   services/docx_service.py  extract_variables, replace_variables,       *)
(*                             _replace_in_paragraph and the composed      *)
(*                             operations                                  *)
(*   services/pdf_service.py   convert_docx_to_pdf                         *)
(*   services/s3_service.py    the object-store calls                      *)
(*   app.py                    the HTTP endpoints                          *)
(*                                                                         *)
(* A text is a sequence of one-character strings, so that the regular      *)
(* expressions of the service can be modelled by what they match.          *)
(***************************************************************************)
EXTENDS Integers, Sequences, FiniteSets, TLC

VARIABLES
    upload,         \* the uploaded bytes of the request (docx_content)
    vars_in,        \* the 'variables' input of the request
    modified_docx,  \* bytes returned by the last replace_variables, or NoBytes
    extracted,      \* every list extract_variables has returned for upload
    applied,        \* number of replace_variables applications so far
    op,             \* the last composed operation or endpoint that ran
    calls,          \* the external capabilities that operation invoked, in order
    result,         \* what that operation returned or raised
    tmp_dirs        \* the directories under /tmp that operation has left behind

vars == <<upload, vars_in, modified_docx, extracted, applied, op, calls, result, tmp_dirs>>

----------------------------------------------------------------------------
(* Bounds of the model *)

\* longest paragraph text enumerated exhaustively
MaxLen == 5
\* most paragraphs of an enumerated document
MaxPars == 2
\* most replace_variables applications in one behaviour
MaxApply == 2
\* most keys of an enumerated dict
MaxKeys == 2

----------------------------------------------------------------------------
(* Texts *)

LB == "{"
RB == "}"
NL == "\n"

\* code points, for Python's ordering of str
Ord(c) ==
    CASE c = NL  -> 10
      [] c = "X" -> 88
      [] c = "Y" -> 89
      [] c = "a" -> 97
      [] c = "b" -> 98
      [] c = LB  -> 123
      [] c = RB  -> 125

Min2(a, b) == IF a < b THEN a ELSE b

SetMax(S) == CHOOSE x \in S : \A y \in S : y <= x

\* Python: s < t for two str
StrLess(s, t) ==
    \E i \in 1..(Min2(Len(s), Len(t)) + 1) :
        /\ \A j \in 1..(i - 1) : s[j] = t[j]
        /\ \/ i > Len(s) /\ i <= Len(t)
           \/ i <= Len(s) /\ i <= Len(t) /\ Ord(s[i]) < Ord(t[i])

\* Python: sub in text
Contains(sub, text) ==
    \E i \in 0..(Len(text) - Len(sub)) : SubSeq(text, i + 1, i + Len(sub)) = sub

\* Python: text.startswith(p), text.endswith(p)
StartsWith(text, p) == Len(text) >= Len(p) /\ SubSeq(text, 1, Len(p)) = p
EndsWith(text, p) ==
    Len(text) >= Len(p) /\ SubSeq(text, Len(text) - Len(p) + 1, Len(text)) = p

\* Python: part[1:-1]
Slice2_one(part) == SubSeq(part, 2, Len(part) - 1)

\* Python: part[2:-2]
Slice2(part) == SubSeq(part, 3, Len(part) - 2)

\* Python: f'{{{{{key}}}}}'
Wrap(key) == <<LB, LB>> \o key \o <<RB, RB>>

RECURSIVE Concat(_)
Concat(ss) == IF ss = <<>> THEN <<>> ELSE Head(ss) \o Concat(Tail(ss))

\* Python: sep.join(ss)
RECURSIVE Join(_, _)
Join(sep, ss) ==
    IF ss = <<>> THEN <<>>
    ELSE IF Len(ss) = 1 THEN ss[1]
    ELSE ss[1] \o sep \o Join(sep, Tail(ss))

----------------------------------------------------------------------------
(* The regular expression \{\{([^}]+)\}\} *)

\* Length of the match of \{\{[^}]+\}\} that starts at index i of text, 0 when
\* there is none.  [^}]+ is greedy: of the name lengths r that let the rest of
\* the pattern match, the engine takes the longest.
MatchLen(text, i) ==
    IF ~(i + 1 <= Len(text) /\ text[i] = LB /\ text[i + 1] = LB) THEN 0
    ELSE LET cand == {r \in 1..(Len(text) - (i + 1)) :
                        /\ \A j \in 1..r : text[i + 1 + j] # RB
                        /\ i + 3 + r <= Len(text)
                        /\ text[i + 2 + r] = RB
                        /\ text[i + 3 + r] = RB}
         IN  IF cand = {} THEN 0 ELSE 4 + SetMax(cand)

\* re.finditer: the non-overlapping matches, leftmost first, scanning from i
RECURSIVE Matches(_, _)
Matches(text, i) ==
    IF i > Len(text) THEN <<>>
    ELSE LET n == MatchLen(text, i)
         IN  IF n = 0 THEN Matches(text, i + 1)
             ELSE <<[start |-> i, end |-> i + n - 1]>> \o Matches(text, i + n)

\* re.findall(r'\{\{([^}]+)\}\}', text): the captured names
re_findall(text) ==
    LET ms == Matches(text, 1)
    IN  [k \in 1..Len(ms) |-> SubSeq(text, ms[k].start + 2, ms[k].end - 2)]

\* re.split(r'(\{\{[^}]+\}\})', text): literal, token, literal, ..., literal
RECURSIVE SplitFrom(_, _, _)
SplitFrom(text, ms, cursor) ==
    IF ms = <<>> THEN <<SubSeq(text, cursor, Len(text))>>
    ELSE <<SubSeq(text, cursor, Head(ms).start - 1),
           SubSeq(text, Head(ms).start, Head(ms).end)>>
         \o SplitFrom(text, Tail(ms), Head(ms).end + 1)

re_split(text) == SplitFrom(text, Matches(text, 1), 1)

----------------------------------------------------------------------------
(* Documents: regions -> paragraphs -> runs (python-docx's object tree) *)

\* the style a run gets from paragraph.add_run(text): none of its own
DefaultStyle == "default"

Run(text, style) == [text |-> text, style |-> style]

Para(runs) == [runs |-> runs]

\* paragraph.text: the run texts, concatenated
ParagraphText(paragraph) ==
    Concat([i \in 1..Len(paragraph.runs) |-> paragraph.runs[i].text])

\* cell.text: the texts of the cell's paragraphs, joined by a line break
CellText(cell) ==
    Join(<<NL>>, [i \in 1..Len(cell.paragraphs) |-> ParagraphText(cell.paragraphs[i])])

\* bytes that are a DOCX package, bytes that are not, and no bytes at all
DocxBytes(doc) == [kind |-> "docx", doc |-> doc]
Garbage == [kind |-> "garbage", doc |-> <<>>]
NoBytes == [kind |-> "none", doc |-> <<>>]

\* what a call returned (exc = "none") or raised
Ok(val) == [exc |-> "none", msg |-> "", val |-> val]
Raise(exc, msg) == [exc |-> exc, msg |-> msg, val |-> NoBytes]

\* Document(BytesIO(docx_content)): raises on bytes that are no DOCX package
Document(docx_content) ==
    IF docx_content.kind = "docx" THEN Ok(docx_content.doc)
    ELSE Raise("PackageNotFoundError", "Package not found")

\* the cells the loops over doc.tables, table.rows, row.cells visit, in order
RECURSIVE Flatten(_)
Flatten(ss) == IF ss = <<>> THEN <<>> ELSE Head(ss) \o Flatten(Tail(ss))

RowsOf(doc) == Flatten([t \in 1..Len(doc.tables) |-> doc.tables[t].rows])
CellsOf(doc) == Flatten([r \in 1..Len(RowsOf(doc)) |-> RowsOf(doc)[r].cells])

Range(f) == {f[i] : i \in DOMAIN f}

PartParagraphs(part) == IF part.present THEN part.paragraphs ELSE <<>>

\* every paragraph replace_variables visits, in the order it visits them
ParagraphsOf(doc) ==
    doc.paragraphs
    \o Flatten([c \in 1..Len(CellsOf(doc)) |-> CellsOf(doc)[c].paragraphs])
    \o Flatten([s \in 1..Len(doc.sections) |->
            PartParagraphs(doc.sections[s].header) \o PartParagraphs(doc.sections[s].footer)])

----------------------------------------------------------------------------
(* extract_variables *)

\* the set `variables` when the loops of extract_variables are done
VariableSet(doc) ==
    UNION {Range(re_findall(ParagraphText(doc.paragraphs[i]))) :
              i \in 1..Len(doc.paragraphs)}
    \cup UNION {Range(re_findall(CellText(CellsOf(doc)[c]))) :
              c \in 1..Len(CellsOf(doc))}
    \cup UNION {IF doc.sections[s].header.present
                THEN UNION {Range(re_findall(ParagraphText(doc.sections[s].header.paragraphs[i]))) :
                              i \in 1..Len(doc.sections[s].header.paragraphs)}
                ELSE {} : s \in 1..Len(doc.sections)}
    \cup UNION {IF doc.sections[s].footer.present
                THEN UNION {Range(re_findall(ParagraphText(doc.sections[s].footer.paragraphs[i]))) :
                              i \in 1..Len(doc.sections[s].footer.paragraphs)}
                ELSE {} : s \in 1..Len(doc.sections)}

\* list(S): the elements of the set, each once, in an order Python does not fix
Listings(S) ==
    {lst \in [1..Cardinality(S) -> S] : \A i, j \in 1..Cardinality(S) : lst[i] = lst[j] => i = j}

\* the lists list(variables) may be for these bytes
ListingsOf(docx_content) ==
    IF docx_content.kind = "docx" THEN Listings(VariableSet(docx_content.doc)) ELSE {<<>>}

RECURSIVE Insert(_, _)
Insert(x, s) ==
    IF s = <<>> THEN <<x>>
    ELSE IF StrLess(x, Head(s)) THEN <<x>> \o s
    ELSE <<Head(s)>> \o Insert(x, Tail(s))

\* sorted replaced by a copy of the list in the order it came in
sorted_unsorted(lst) == [i \in 1..Len(lst) |-> lst[i]]

\* sorted(lst) for a list of str
RECURSIVE sorted(_)
sorted(lst) == IF lst = <<>> THEN <<>> ELSE Insert(Head(lst), sorted(Tail(lst)))

\* extract_variables(docx_content); listing is list(variables)
extract_variables(docx_content, listing) ==
    LET doc == Document(docx_content)
    IN  IF doc.exc # "none" THEN doc ELSE Ok(sorted(listing))

----------------------------------------------------------------------------
(* replace_variables *)

\* the test the loop makes of a part: "This is a variable"
IsToken(part) == StartsWith(part, <<LB, LB>>) /\ EndsWith(part, <<RB, RB>>)

\* the runs the loop over parts adds to the cleared paragraph
RECURSIVE NewRuns(_, _)
NewRuns(parts, mapping) ==
    IF parts = <<>> THEN <<>>
    ELSE LET part == Head(parts)
             rest == NewRuns(Tail(parts), mapping)
         IN  IF IsToken(part)
             THEN LET var_name == Slice2(part)
                      replacement == IF var_name \in DOMAIN mapping
                                     THEN mapping[var_name] ELSE part
                  IN  <<Run(replacement, DefaultStyle)>> \o rest
             ELSE IF part # <<>> THEN <<Run(part, DefaultStyle)>> \o rest
             ELSE rest

\* the guard of _replace_in_paragraph: some {{key}} is in the text
AnyKeyIn(full_text, mapping) ==
    \E key \in DOMAIN mapping : Contains(Wrap(key), full_text)

\* _replace_in_paragraph without its early return: every paragraph is rebuilt
replace_in_paragraph_always(paragraph, mapping) ==
    Para(NewRuns(re_split(ParagraphText(paragraph)), mapping))

\* _replace_in_paragraph(paragraph, variables): the paragraph afterwards
replace_in_paragraph(paragraph, mapping) ==
    LET full_text == ParagraphText(paragraph)
    IN  IF ~AnyKeyIn(full_text, mapping) THEN paragraph
        ELSE Para(NewRuns(re_split(full_text), mapping))

ReplaceInAll(paragraphs, mapping) ==
    [i \in 1..Len(paragraphs) |-> replace_in_paragraph(paragraphs[i], mapping)]

\* the paragraphs after the loops have come by them n times: a merged cell is
\* in row.cells once per grid column it spans, and a header or footer is
\* reached through every section that is linked to it
RECURSIVE ReplaceTimes(_, _, _)
ReplaceTimes(paragraphs, mapping, n) ==
    IF n = 0 THEN paragraphs
    ELSE ReplaceTimes(ReplaceInAll(paragraphs, mapping), mapping, n - 1)

ReplaceInPart(part, mapping) ==
    IF part.present
    THEN [present |-> TRUE, uses |-> part.uses,
          paragraphs |-> ReplaceTimes(part.paragraphs, mapping, part.uses)]
    ELSE part

\* the document after the loops of replace_variables
ReplaceInDocument(doc, mapping) ==
    [paragraphs |-> ReplaceInAll(doc.paragraphs, mapping),
     tables |-> [t \in 1..Len(doc.tables) |->
        [rows |-> [r \in 1..Len(doc.tables[t].rows) |->
            [cells |-> [c \in 1..Len(doc.tables[t].rows[r].cells) |->
                [span |-> doc.tables[t].rows[r].cells[c].span,
                 paragraphs |->
                    ReplaceTimes(doc.tables[t].rows[r].cells[c].paragraphs, mapping,
                                 doc.tables[t].rows[r].cells[c].span)]]]]]],
     sections |-> [s \in 1..Len(doc.sections) |->
        [header |-> ReplaceInPart(doc.sections[s].header, mapping),
         footer |-> ReplaceInPart(doc.sections[s].footer, mapping)]]]

\* replace_variables(docx_content, variables) for a dict `mapping`
replace_variables(docx_content, mapping) ==
    LET doc == Document(docx_content)
    IN  IF doc.exc # "none" THEN doc
        ELSE Ok(DocxBytes(ReplaceInDocument(doc.val, mapping)))

----------------------------------------------------------------------------
(* The inputs the behaviours start from *)

\* a value of the 'variables' input: a str, None, or a number; s is str(value)
StrValue(text) == [ty |-> "str", s |-> text]
NoneValue == [ty |-> "none", s |-> <<"None">>]
IntValue(digits) == [ty |-> "int", s |-> digits]

\* the 'variables' input: None, a dict of name -> value, a list of items, or
\* something else (a number, a text)
NoVariables == [t |-> "none", items |-> <<>>]
Dict(items) == [t |-> "dict", items |-> items]
List(items) == [t |-> "list", items |-> items]
OtherInput == [t |-> "other", items |-> <<>>]

\* Python: bool(variables) for None, a dict or a list
Truthy(v) == (v.t = "dict" /\ DOMAIN v.items # {}) \/ (v.t = "list" /\ v.items # <<>>)

\* a dict whose values are all str
AllStr(items) == \A k \in DOMAIN items : items[k].ty = "str"

\* the dict as name -> text
Strs(items) == [k \in DOMAIN items |-> items[k].s]

\* a dict of str values from name -> text
StrDict(m) == Dict([k \in DOMAIN m |-> StrValue(m[k])])

SeqsUpTo(S, n) == UNION {[1..k -> S] : k \in 0..n}

\* a text cut into len(cuts) + 1 non-empty runs at the positions in cuts
RunsOfText(text, cuts, style) ==
    LET ends == {c \in 1..Len(text) : c \in cuts \/ c = Len(text)}
        startOf(e) == IF \E c \in ends : c < e
                      THEN SetMax({c \in ends : c < e}) + 1 ELSE 1
        nth(k) == CHOOSE e \in ends : Cardinality({c \in ends : c <= e}) = k
    IN  [k \in 1..Cardinality(ends) |-> Run(SubSeq(text, startOf(nth(k)), nth(k)), style)]

\* every paragraph whose text has at most MaxLen characters of { } a, as one
\* run and cut into two runs at every position
ShortParagraphs ==
    UNION {{Para(RunsOfText(text, cuts, "bold")) :
               cuts \in {{}} \cup {{c} : c \in 1..(Len(text) - 1)}} :
              text \in SeqsUpTo({LB, RB, "a"}, MaxLen)}

ShortKeys == {<<"a">>, <<>>, <<RB>>}

\* the dicts over at most MaxKeys of ShortKeys
ShortMappings ==
    {[k \in K |-> <<"X">>] : K \in {K \in SUBSET ShortKeys : Cardinality(K) <= MaxKeys}}

\* a document of one table with one cell per row, and one section; no cell is
\* merged and no further section is linked to the header or the footer
MkDoc(body, cell1, cell2, header, footer) ==
    [paragraphs |-> body,
     tables |-> IF cell1 = <<>> /\ cell2 = <<>> THEN <<>>
                ELSE <<[rows |-> [r \in 1..Len(SelectSeq(<<cell1, cell2>>, LAMBDA c : c # <<>>)) |->
                          [cells |-> <<[span |-> 1, paragraphs |->
                              SelectSeq(<<cell1, cell2>>, LAMBDA c : c # <<>>)[r]]>>]]]>>,
     sections |-> <<[header |-> [present |-> header # <<>>, uses |-> 1, paragraphs |-> header],
                     footer |-> [present |-> footer # <<>>, uses |-> 1, paragraphs |-> footer]]>>]

PoolParagraphs ==
    { Para(<<Run(<<LB, LB, "a", RB, RB, "Y", LB, LB>>, "bold"),
             Run(<<"b", RB, RB>>, DefaultStyle)>>),
      Para(<<Run(<<LB, LB>>, "bold"), Run(<<"a">>, DefaultStyle)>>),
      Para(<<Run(<<"b", RB, RB>>, DefaultStyle)>>),
      Para(<<Run(<<"Y">>, "bold")>>),
      Para(<<Run(<<LB, LB, "b", RB, RB>>, "bold")>>),
      Para(<<Run(<<LB, LB, "a", RB, RB>>, "bold")>>),
      Para(<<Run(<<LB, LB, "b", RB, LB, LB, "b", RB, RB, RB>>, "bold")>>) }

\* n paragraph lists with at most budget paragraphs of the pool in all
RECURSIVE Fill(_, _)
Fill(n, budget) ==
    IF n = 0 THEN {<<>>}
    ELSE UNION {{<<s>> \o rest : rest \in Fill(n - 1, budget - Len(s))} :
                   s \in SeqsUpTo(PoolParagraphs, budget)}

\* documents of at most MaxPars pool paragraphs, spread over the body, two
\* table cells, the header and the footer
PoolDocs == {MkDoc(f[1], f[2], f[3], f[4], f[5]) : f \in Fill(5, MaxPars)}

\* the document with its cells spanning `span` grid columns, its header shown
\* by `header_uses` sections and its footer by `footer_uses` sections
Shared(doc, span, header_uses, footer_uses) ==
    [paragraphs |-> doc.paragraphs,
     tables |-> [t \in 1..Len(doc.tables) |->
        [rows |-> [r \in 1..Len(doc.tables[t].rows) |->
            [cells |-> [c \in 1..Len(doc.tables[t].rows[r].cells) |->
                [span |-> span, paragraphs |-> doc.tables[t].rows[r].cells[c].paragraphs]]]]]],
     sections |-> [s \in 1..Len(doc.sections) |->
        [header |-> [present |-> doc.sections[s].header.present, uses |-> header_uses,
                     paragraphs |-> doc.sections[s].header.paragraphs],
         footer |-> [present |-> doc.sections[s].footer.present, uses |-> footer_uses,
                     paragraphs |-> doc.sections[s].footer.paragraphs]]]]

\* documents with the paragraph {{a}} in some regions, where the cell is
\* merged over two columns or a second section is linked to the header or
\* the footer of the first
SharedDocs ==
    LET p == <<Para(<<Run(<<LB, LB, "a", RB, RB>>, "bold")>>)>>
    IN  UNION {{Shared(MkDoc(f[1], f[2], <<>>, f[3], f[4]), n[1], n[2], n[3]) :
                   n \in {n \in [1..3 -> {1, 2}] :
                             /\ \E i \in 1..3 : n[i] = 2
                             /\ \A i \in 1..3 : n[i] = 2 => f[i + 1] # <<>>}} :
                 f \in [1..4 -> {<<>>, p}]}

PoolMappings ==
    { <<>>,
      [k \in {<<"a">>} |-> <<"X">>],
      [k \in {<<"a">>, <<"b">>} |-> IF k = <<"a">> THEN <<"X">> ELSE <<>>],
      [k \in {<<"a">>, <<"b">>} |-> IF k = <<"a">> THEN <<LB, LB, "b", RB, RB>> ELSE <<"Y">>] }

InitCommon ==
    /\ modified_docx = NoBytes
    /\ extracted = {}
    /\ applied = 0
    /\ op = "none"
    /\ calls = <<>>
    /\ result = Ok(NoBytes)
    /\ tmp_dirs = {}

\* one short paragraph in the body, a document of pool paragraphs, or one
\* with a merged cell or a linked header or footer
InitCore ==
    /\ \/ /\ upload \in {DocxBytes(MkDoc(<<p>>, <<>>, <<>>, <<>>, <<>>)) : p \in ShortParagraphs}
          /\ vars_in \in {StrDict(m) : m \in ShortMappings}
       \/ /\ upload \in {DocxBytes(d) : d \in PoolDocs \cup SharedDocs}
          /\ vars_in \in {StrDict(m) : m \in PoolMappings}
    /\ InitCommon

----------------------------------------------------------------------------
(* The service functions, called directly *)

\* extract_variables(upload)
ExtractVariables ==
    /\ \E listing \in ListingsOf(upload) :
          LET r == extract_variables(upload, listing)
          IN  /\ result' = r
              /\ extracted' = IF r.exc = "none" THEN extracted \cup {r.val} ELSE extracted
    /\ op' = "extract_variables"
    /\ calls' = <<>>
    /\ UNCHANGED <<upload, vars_in, modified_docx, applied, tmp_dirs>>

\* replace_variables on the upload, or again on the bytes it returned
ReplaceVariables ==
    /\ applied < MaxApply
    /\ vars_in.t = "dict" /\ AllStr(vars_in.items)
    /\ LET r == replace_variables(IF applied = 0 THEN upload ELSE modified_docx,
                                  Strs(vars_in.items))
       IN  /\ result' = r
           /\ modified_docx' = r.val
    /\ applied' = applied + 1
    /\ op' = "replace_variables"
    /\ calls' = <<>>
    /\ UNCHANGED <<upload, vars_in, extracted, tmp_dirs>>

NextCore == ExtractVariables \/ ReplaceVariables

SpecCore == InitCore /\ [][NextCore]_vars

----------------------------------------------------------------------------
(* The renderer and the object store, as the service calls them *)

\* how the external calls of one request turn out
RenderOutcomes == {"ok", "not_found", "write_failed", "timeout", "nonzero", "no_pdf"}
Envs == [render : RenderOutcomes, put : BOOLEAN, presign : BOOLEAN, get : BOOLEAN]

\* the content of document.pdf, rendered from these bytes
PdfBytes(docx_content) == [kind |-> "pdf", doc |-> docx_content.doc]

\* the directories convert_docx_to_pdf and _find_libreoffice make
TempDir == "/tmp/<mkdtemp>"
WorkDir == "/tmp/lo_layer_extract"

\* one step of a conversion: a system call, or the check of its result
Step(name, ok) == [cap |-> name, ok |-> ok]

\* how a conversion ends: the outcome, the steps taken, the directories left
Ended(r, steps, dirs) == [exc |-> r.exc, msg |-> r.msg, val |-> r.val, steps |-> steps, dirs |-> dirs]

\* the finally clause: shutil.rmtree(temp_dir), its failure ignored
Finally(r, steps, work, cleanup) ==
    Ended(r, steps \o <<Step("rmtree", cleanup)>>,
          work \cup (IF cleanup THEN {} ELSE {TempDir}))

\* the try block without the check of result.returncode: what LibreOffice left
\* in document.pdf is returned
TryConvert_unchecked(docx_content, outcome, found, work, cleanup) ==
    IF outcome \in {"write_failed", "timeout", "no_pdf"}
    THEN Finally(Raise("Exception", "conversion failed"),
                 found \o <<Step("mkdtemp", TRUE), Step(outcome, FALSE)>>, work, cleanup)
    ELSE Finally(Ok(PdfBytes(docx_content)),
                 found \o <<Step("mkdtemp", TRUE), Step("write", TRUE), Step("run", TRUE),
                            Step("returncode", outcome # "nonzero"), Step("exists", TRUE),
                            Step("read", TRUE)>>,
                 work, cleanup)

\* the try block, from the write of document.docx on
TryConvert(docx_content, outcome, found, work, cleanup) ==
    IF outcome = "write_failed"
    THEN Finally(Raise("OSError", "cannot write document.docx"),
                 found \o <<Step("mkdtemp", TRUE), Step("write", FALSE)>>, work, cleanup)
    ELSE IF outcome = "timeout"
    THEN Finally(Raise("TimeoutExpired", "timed out after 120 seconds"),
                 found \o <<Step("mkdtemp", TRUE), Step("write", TRUE), Step("run", FALSE)>>,
                 work, cleanup)
    ELSE IF outcome = "nonzero"
    THEN Finally(Raise("Exception", "LibreOffice conversion failed"),
                 found \o <<Step("mkdtemp", TRUE), Step("write", TRUE), Step("run", TRUE),
                            Step("returncode", FALSE)>>,
                 work, cleanup)
    ELSE IF outcome = "no_pdf"
    THEN Finally(Raise("Exception", "PDF file was not created"),
                 found \o <<Step("mkdtemp", TRUE), Step("write", TRUE), Step("run", TRUE),
                            Step("returncode", TRUE), Step("exists", FALSE)>>,
                 work, cleanup)
    ELSE Finally(Ok(PdfBytes(docx_content)),
                 found \o <<Step("mkdtemp", TRUE), Step("write", TRUE), Step("run", TRUE),
                            Step("returncode", TRUE), Step("exists", TRUE), Step("read", TRUE)>>,
                 work, cleanup)

\* os.makedirs(work_dir, exist_ok=True) for a layer archive found in /opt
Unpacked(archive) == IF archive THEN <<Step("makedirs", TRUE)>> ELSE <<>>

\* one conversion: outcome is how the renderer fares, archive whether
\* _find_libreoffice unpacked a layer archive, cleanup whether rmtree succeeds
Conversion(docx_content, outcome, archive, cleanup) ==
    IF outcome = "not_found"
    THEN Ended(Raise("Exception", "LibreOffice not found"),
               Unpacked(archive) \o <<Step("find", FALSE)>>,
               IF archive THEN {WorkDir} ELSE {})
    ELSE TryConvert(docx_content, outcome, Unpacked(archive) \o <<Step("find", TRUE)>>,
                    IF archive THEN {WorkDir} ELSE {}, cleanup)

\* what the caller of a conversion sees
Outcome(r) == [exc |-> r.exc, msg |-> r.msg, val |-> r.val]

\* convert_docx_to_pdf(docx_content), the renderer found without unpacking and
\* the temporary directory removed
convert_docx_to_pdf(docx_content, env) ==
    Outcome(Conversion(docx_content, env.render, FALSE, TRUE))

\* upload_bytes_to_s3(bucket, key, data, content_type)
upload_bytes_to_s3(bucket, key, data, content_type, env) ==
    IF env.put THEN Ok(NoBytes) ELSE Raise("ClientError", "put_object failed")

\* generate_presigned_get_url(bucket, key, expires_in_seconds)
generate_presigned_get_url(bucket, key, expires_in_seconds, env) ==
    IF env.presign
    THEN Ok([bucket |-> bucket, key |-> key, expires |-> expires_in_seconds])
    ELSE Raise("ClientError", "generate_presigned_url failed")

\* get_object_bytes(bucket, key); body is what the store holds there
get_object_bytes(bucket, key, body, env) ==
    IF env.get THEN Ok(body) ELSE Raise("ClientError", "get_object failed")

\* one invocation of an external capability, and how it ended
Call(cap, r) == [cap |-> cap, ok |-> r.exc = "none", exc |-> r.exc, msg |-> r.msg]

\* a call's outcome together with the capabilities invoked on the way
With(r, invoked) == [exc |-> r.exc, msg |-> r.msg, val |-> r.val, calls |-> invoked]

----------------------------------------------------------------------------
(* Object keys *)

\* an Optional[str]: None, or a text
NoText == [given |-> FALSE, text |-> <<>>]
Text(t) == [given |-> TRUE, text |-> t]

\* Python: opt or default
OrDefault(opt, default) == IF opt.given /\ opt.text # <<>> THEN opt.text ELSE default

\* Python: text.strip("/")
RECURSIVE LStrip(_)
LStrip(text) == IF text # <<>> /\ Head(text) = "/" THEN LStrip(Tail(text)) ELSE text
RECURSIVE RStrip(_)
RStrip(text) ==
    IF text # <<>> /\ text[Len(text)] = "/" THEN RStrip(SubSeq(text, 1, Len(text) - 1))
    ELSE text
Strip(text) == RStrip(LStrip(text))

\* uuid.uuid4().hex
UniqueId == "uuid4hex"

\* f"{prefix}/{unique_id}.pdf" if prefix else f"{unique_id}.pdf"
ObjectKey(prefix, unique_id) ==
    IF prefix # <<>> THEN prefix \o <<"/", unique_id, ".pdf">> ELSE <<unique_id, ".pdf">>

----------------------------------------------------------------------------
(* normalize_variables_input *)

\* a key of a list item that is not there
Missing == [ty |-> "missing", s |-> <<>>]

\* an item of a list input: a {name, value} object, or something that is no object
Item(name, value) == [isdict |-> TRUE, name |-> name, value |-> value]
NotAnObject == [isdict |-> FALSE, name |-> Missing, value |-> Missing]

\* Python: d[k] = v
Put(d, k, v) == [x \in (DOMAIN d) \cup {k} |-> IF x = k THEN v ELSE d[x]]

\* the dict branch
NormDict(items) ==
    [k \in {k \in DOMAIN items : k # <<>>} |->
        IF items[k].ty = "none" THEN <<>> ELSE items[k].s]

\* the list branch, from the items still to visit and the dict built so far
RECURSIVE NormList(_, _)
NormList(items, normalized) ==
    IF items = <<>> THEN normalized
    ELSE LET item == Head(items)
         IN  IF ~item.isdict THEN NormList(Tail(items), normalized)
             ELSE IF item.name.ty \in {"missing", "none"} THEN NormList(Tail(items), normalized)
             ELSE LET name_str == item.name.s
                      value_str == IF item.value.ty \in {"missing", "none"}
                                   THEN <<>> ELSE item.value.s
                  IN  IF name_str # <<>>
                      THEN NormList(Tail(items), Put(normalized, name_str, value_str))
                      ELSE NormList(Tail(items), normalized)

\* normalize_variables_input(variables_input)
normalize_variables_input(variables_input) ==
    IF variables_input.t = "none" THEN Ok(<<>>)
    ELSE IF variables_input.t = "dict" THEN Ok(NormDict(variables_input.items))
    ELSE IF variables_input.t = "list" THEN Ok(NormList(variables_input.items, <<>>))
    ELSE Raise("ValueError", "variables must be a dict or an array of objects with name/value")

----------------------------------------------------------------------------
(* The composed operations *)

\* docx_for_conversion / final_docx: replaced when variables is truthy
DocxForConversion(docx_content, mapping_in) ==
    IF Truthy(mapping_in) THEN replace_variables(docx_content, Strs(mapping_in.items))
    ELSE Ok(docx_content)

\* extract_variables_and_convert_pdf(docx_content, variables)
extract_variables_and_convert_pdf(docx_content, mapping_in, listing, env) ==
    LET extracted_variables == extract_variables(docx_content, listing)
        docx_for_conversion == DocxForConversion(docx_content, mapping_in)
        pdf_bytes == convert_docx_to_pdf(docx_for_conversion.val, env)
    IN  IF extracted_variables.exc # "none" THEN With(extracted_variables, <<>>)
        ELSE IF docx_for_conversion.exc # "none" THEN With(docx_for_conversion, <<>>)
        ELSE IF pdf_bytes.exc # "none" THEN With(pdf_bytes, <<Call("render", pdf_bytes)>>)
        ELSE With(Ok(<<extracted_variables.val, pdf_bytes.val>>),
                  <<Call("render", pdf_bytes)>>)

\* extract_convert_upload_get_url with the list taken from the replaced document
extract_convert_upload_get_url_after(docx_content, mapping_in, bucket_name, s3_prefix, presign_ttl_seconds, listing, env) ==
    LET final_docx == DocxForConversion(docx_content, mapping_in)
        extracted_variables ==
            extract_variables(final_docx.val, CHOOSE l \in ListingsOf(final_docx.val) : TRUE)
        pdf_bytes == convert_docx_to_pdf(final_docx.val, env)
        key == ObjectKey(Strip(OrDefault(s3_prefix, <<"generated-pdfs">>)), UniqueId)
        put == upload_bytes_to_s3(bucket_name, key, pdf_bytes.val, "application/pdf", env)
        url == generate_presigned_get_url(bucket_name, key, presign_ttl_seconds, env)
    IN  IF final_docx.exc # "none" THEN With(final_docx, <<>>)
        ELSE IF pdf_bytes.exc # "none" THEN With(pdf_bytes, <<Call("render", pdf_bytes)>>)
        ELSE IF put.exc # "none"
             THEN With(put, <<Call("render", pdf_bytes), Call("put", put)>>)
        ELSE IF url.exc # "none"
             THEN With(url, <<Call("render", pdf_bytes), Call("put", put), Call("presign", url)>>)
        ELSE With(Ok(<< <<"variables", extracted_variables.val>>,
                        <<"pdfKey", key>>,
                        <<"presignedUrl", url.val>> >>),
                  <<Call("render", pdf_bytes), Call("put", put), Call("presign", url)>>)

\* extract_convert_upload_get_url(docx_content, variables, bucket_name, s3_prefix,
\*                                presign_ttl_seconds)
extract_convert_upload_get_url(docx_content, mapping_in, bucket_name, s3_prefix, presign_ttl_seconds, listing, env) ==
    LET extracted_variables == extract_variables(docx_content, listing)
        final_docx == DocxForConversion(docx_content, mapping_in)
        pdf_bytes == convert_docx_to_pdf(final_docx.val, env)
        prefix == Strip(OrDefault(s3_prefix, <<"generated-pdfs">>))
        key == ObjectKey(prefix, UniqueId)
        put == upload_bytes_to_s3(bucket_name, key, pdf_bytes.val, "application/pdf", env)
        url == generate_presigned_get_url(bucket_name, key, presign_ttl_seconds, env)
    IN  IF extracted_variables.exc # "none" THEN With(extracted_variables, <<>>)
        ELSE IF final_docx.exc # "none" THEN With(final_docx, <<>>)
        ELSE IF pdf_bytes.exc # "none" THEN With(pdf_bytes, <<Call("render", pdf_bytes)>>)
        ELSE IF put.exc # "none"
             THEN With(put, <<Call("render", pdf_bytes), Call("put", put)>>)
        ELSE IF url.exc # "none"
             THEN With(url, <<Call("render", pdf_bytes), Call("put", put), Call("presign", url)>>)
        ELSE With(Ok(<< <<"variables", extracted_variables.val>>,
                        <<"pdfKey", key>>,
                        <<"presignedUrl", url.val>> >>),
                  <<Call("render", pdf_bytes), Call("put", put), Call("presign", url)>>)

\* replace_from_s3_convert_and_upload that uploads whatever the renderer left
replace_from_s3_convert_and_upload_lenient(source_bucket, source_key, mapping_in, target_bucket, target_prefix, presign_ttl_seconds, body, env) ==
    LET original_docx == get_object_bytes(source_bucket, source_key, body, env)
        normalized_vars == normalize_variables_input(mapping_in)
        modified_docx_ == replace_variables(original_docx.val, normalized_vars.val)
        pdf_bytes == convert_docx_to_pdf(modified_docx_.val, env)
        pdf_key == ObjectKey(Strip(OrDefault(target_prefix, <<"processed">>)), UniqueId)
        put == upload_bytes_to_s3(target_bucket, pdf_key, pdf_bytes.val, "application/pdf", env)
    IN  IF original_docx.exc # "none" THEN With(original_docx, <<Call("get", original_docx)>>)
        ELSE IF normalized_vars.exc # "none"
             THEN With(normalized_vars, <<Call("get", original_docx)>>)
        ELSE IF modified_docx_.exc # "none"
             THEN With(modified_docx_, <<Call("get", original_docx)>>)
        ELSE IF put.exc # "none"
             THEN With(put, <<Call("get", original_docx), Call("render", pdf_bytes),
                              Call("put", put)>>)
        ELSE With(IF pdf_bytes.exc # "none" THEN pdf_bytes ELSE Ok(<< <<"pdfKey", pdf_key>> >>),
                  <<Call("get", original_docx), Call("render", pdf_bytes), Call("put", put)>>)

\* replace_from_s3_convert_and_upload(source_bucket, source_key, variables,
\*                                    target_bucket, target_prefix, presign_ttl_seconds)
replace_from_s3_convert_and_upload(source_bucket, source_key, mapping_in, target_bucket, target_prefix, presign_ttl_seconds, body, env) ==
    LET original_docx == get_object_bytes(source_bucket, source_key, body, env)
        normalized_vars == normalize_variables_input(mapping_in)
        modified_docx_ == replace_variables(original_docx.val, normalized_vars.val)
        pdf_bytes == convert_docx_to_pdf(modified_docx_.val, env)
        prefix == Strip(OrDefault(target_prefix, <<"processed">>))
        pdf_key == ObjectKey(prefix, UniqueId)
        put == upload_bytes_to_s3(target_bucket, pdf_key, pdf_bytes.val, "application/pdf", env)
    IN  IF original_docx.exc # "none" THEN With(original_docx, <<Call("get", original_docx)>>)
        ELSE IF normalized_vars.exc # "none"
             THEN With(normalized_vars, <<Call("get", original_docx)>>)
        ELSE IF modified_docx_.exc # "none"
             THEN With(modified_docx_, <<Call("get", original_docx)>>)
        ELSE IF pdf_bytes.exc # "none"
             THEN With(pdf_bytes, <<Call("get", original_docx), Call("render", pdf_bytes)>>)
        ELSE IF put.exc # "none"
             THEN With(put, <<Call("get", original_docx), Call("render", pdf_bytes),
                              Call("put", put)>>)
        ELSE With(Ok(<< <<"pdfKey", pdf_key>> >>),
                  <<Call("get", original_docx), Call("render", pdf_bytes), Call("put", put)>>)

----------------------------------------------------------------------------
(* The HTTP endpoints *)

\* max_size: 10 * 1024 * 1024
MaxSize == 10485760
\* the default of presign_ttl_seconds and of ttlSeconds
DefaultTtl == 86400

BadRequest(msg) == Raise("BadRequest", msg)

\* filename.lower(), for a name given as its stem and its extension
Lower(filename) ==
    [i \in 1..Len(filename) |-> IF filename[i] = ".DOCX" THEN ".docx" ELSE filename[i]]

\* validate_docx_file(file); a FileStorage without a filename is falsy
validate_docx_file(file) ==
    IF file.filename = <<>> THEN BadRequest("No file provided")
    ELSE IF ~EndsWith(Lower(file.filename), <<".docx">>)
         THEN BadRequest("File must be a .docx file")
    ELSE IF file.size > MaxSize
         THEN BadRequest("File size exceeds maximum allowed size of 10MB")
    ELSE Ok(NoBytes)

\* validate_variables_mapping(variables)
validate_variables_mapping(mapping_in) ==
    IF mapping_in.t = "none" THEN BadRequest("Variables mapping is required")
    ELSE IF mapping_in.t # "dict" THEN BadRequest("Variables must be a dictionary")
    ELSE IF ~AllStr(mapping_in.items) THEN BadRequest("Variable values must be strings")
    ELSE Ok(NoBytes)

\* Python: int(text) for a text of decimal digits, ValueError otherwise
DigitValue(c) ==
    CASE c = "0" -> 0 [] c = "1" -> 1 [] c = "2" -> 2 [] c = "3" -> 3 [] c = "4" -> 4
      [] c = "5" -> 5 [] c = "6" -> 6 [] c = "7" -> 7 [] c = "8" -> 8 [] c = "9" -> 9
Digits == {"0", "1", "2", "3", "4", "5", "6", "7", "8", "9"}
RECURSIVE DecimalValue(_)
DecimalValue(text) ==
    IF text = <<>> THEN 0
    ELSE 10 * DecimalValue(SubSeq(text, 1, Len(text) - 1)) + DigitValue(text[Len(text)])
int(text) ==
    IF text # <<>> /\ \A i \in 1..Len(text) : text[i] \in Digits
    THEN Ok(DecimalValue(text))
    ELSE Raise("ValueError", "invalid literal for int() with base 10")

\* a JSON response, and the response of send_file
Json(status, body) == [status |-> status, body |-> body]
SendFile(data, mimetype, download_name) ==
    [status |-> 200,
     body |-> << <<"file", data>>, <<"mimetype", mimetype>>, <<"download_name", download_name>> >>]

\* the except clauses of an endpoint: BadRequest -> 400, any other Exception -> 500
Handled(r, label) ==
    IF r.exc = "none" THEN r.val
    ELSE IF r.exc = "BadRequest" THEN Json(400, << <<"error", r.msg>> >>)
    ELSE Json(500, << <<"error", label>>, <<"message", r.msg>> >>)

\* Python: a, b = d for a dict d, which iterates over its keys
Unpack2(d) ==
    IF Len(d) > 2 THEN Raise("ValueError", "too many values to unpack (expected 2)")
    ELSE IF Len(d) < 2 THEN Raise("ValueError", "not enough values to unpack (expected 2)")
    ELSE Ok(<<d[1][1], d[2][1]>>)

\* the try block of process_document_endpoint
ProcessDocumentBody(req, parsed, docx_content, env) ==
    LET checked == validate_docx_file(req.file)
        validated == validate_variables_mapping(parsed)
        modified == replace_variables(docx_content, Strs(parsed.items))
        pdf_content == convert_docx_to_pdf(modified.val, env)
    IN  IF ~req.file.present THEN With(BadRequest("No file provided in request"), <<>>)
        ELSE IF checked.exc # "none" THEN With(checked, <<>>)
        ELSE IF req.variables_json = "absent"
             THEN With(BadRequest("Variables mapping is required"), <<>>)
        ELSE IF req.variables_json = "badjson"
             THEN With(BadRequest("Invalid JSON in variables field"), <<>>)
        ELSE IF validated.exc # "none" THEN With(validated, <<>>)
        ELSE IF modified.exc # "none" THEN With(modified, <<>>)
        ELSE IF pdf_content.exc # "none"
             THEN With(pdf_content, <<Call("render", pdf_content)>>)
        ELSE With(Ok(SendFile(pdf_content.val, "application/pdf", "processed.pdf")),
                  <<Call("render", pdf_content)>>)

\* an endpoint's answer: what its except clauses make of the try block's outcome
Respond(r, label) == [response |-> Handled(r, label), calls |-> r.calls]

\* process_document_endpoint()
process_document_endpoint(req, parsed, docx_content, env) ==
    Respond(ProcessDocumentBody(req, parsed, docx_content, env), "Failed to process document")

\* return jsonify({'variables': variables_list, 'presignedUrl': url}), 200
UploadAnswer(unpacked, invoked) ==
    IF unpacked.exc # "none" THEN With(unpacked, invoked)
    ELSE With(Ok(Json(200, << <<"variables", unpacked.val[1]>>,
                              <<"presignedUrl", unpacked.val[2]>> >>)),
              invoked)

\* variables_list, url = extract_convert_upload_get_url(...)
UnpackAndAnswer(returned) ==
    IF returned.exc # "none" THEN returned
    ELSE UploadAnswer(Unpack2(returned.val), returned.calls)

\* the try block of extract_convert_upload_endpoint
ExtractConvertUploadBody(req, parsed, docx_content, listing, env) ==
    LET checked == validate_docx_file(req.file)
        validated == validate_variables_mapping(parsed)
        mapping_in == IF req.variables_json = "absent" THEN NoVariables ELSE parsed
        bucket_override == OrDefault(req.bucket, <<"assinaai-temp">>)
        ttl_seconds == IF req.ttlSeconds.given /\ req.ttlSeconds.text # <<>>
                       THEN int(req.ttlSeconds.text) ELSE Ok(DefaultTtl)
    IN  IF ~req.file.present THEN With(BadRequest("No file provided in request"), <<>>)
        ELSE IF checked.exc # "none" THEN With(checked, <<>>)
        ELSE IF req.variables_json = "badjson"
             THEN With(BadRequest("Invalid JSON in variables field"), <<>>)
        ELSE IF req.variables_json # "absent" /\ validated.exc # "none"
             THEN With(validated, <<>>)
        ELSE IF ttl_seconds.exc # "none"
             THEN With(BadRequest("ttlSeconds must be an integer"), <<>>)
        ELSE UnpackAndAnswer(extract_convert_upload_get_url(docx_content, mapping_in,
                                 bucket_override, req.s3Prefix, ttl_seconds.val, listing, env))

\* extract_convert_upload_endpoint()
extract_convert_upload_endpoint(req, parsed, docx_content, listing, env) ==
    Respond(ExtractConvertUploadBody(req, parsed, docx_content, listing, env),
            "Failed to extract, convert and upload")

----------------------------------------------------------------------------
(* One request to a composed operation or an endpoint *)

OpsUploads ==
    {Garbage}
    \cup {DocxBytes(MkDoc(<<p>>, <<>>, <<>>, <<>>, <<>>)) :
             p \in { Para(<<Run(<<LB, LB, "a", RB, RB, "Y", LB, LB>>, "bold"),
                            Run(<<"b", RB, RB>>, DefaultStyle)>>),
                      Para(<<Run(<<"Y">>, "bold")>>) }}
    \cup {DocxBytes(MkDoc(<<>>,
                          <<Para(<<Run(<<LB, LB, "a">>, "bold")>>),
                            Para(<<Run(<<"b", RB, RB>>, "bold")>>)>>,
                          <<>>,
                          <<Para(<<Run(<<LB, LB, "b", RB, RB>>, "bold")>>)>>,
                          <<>>))}

OpsInputs ==
    {NoVariables, OtherInput, List(<<>>)}
    \cup {StrDict(m) : m \in PoolMappings}
    \cup { Dict([k \in {<<"a">>} |-> NoneValue]),
           Dict([k \in {<<>>, <<"a">>} |-> IF k = <<>> THEN StrValue(<<"Y">>) ELSE IntValue(<<"7">>)]),
           List(<<Item(StrValue(<<"a">>), StrValue(<<"X">>)),
                  Item(Missing, StrValue(<<"Y">>)),
                  NotAnObject,
                  Item(StrValue(<<"b">>), NoneValue),
                  Item(StrValue(<<"a">>), Missing)>>) }

Prefixes == {NoText, Text(<<"/">>), Text(<<"t", "/">>)}
Buckets == {NoText, Text(<<"bucket">>)}
Ttls == {NoText, Text(<<"6", "0">>), Text(<<"a">>)}
\* request.files: no 'file' part, or a file part
Files == { [present |-> FALSE, filename |-> <<>>, size |-> 0],
           [present |-> TRUE, filename |-> <<>>, size |-> 1],
           [present |-> TRUE, filename |-> <<"t", ".txt">>, size |-> 1],
           [present |-> TRUE, filename |-> <<"t", ".docx">>, size |-> MaxSize + 1],
           [present |-> TRUE, filename |-> <<"T", ".DOCX">>, size |-> MaxSize] }
\* the form of a request to /api/process-document
ProcessRequests ==
    [file : Files, variables_json : {"absent", "badjson", "json"},
     s3Prefix : {NoText}, bucket : {NoText}, ttlSeconds : {NoText}]
\* the form of a request to /api/extract-convert-upload
UploadRequests ==
    [file : Files, variables_json : {"absent", "badjson", "json"},
     s3Prefix : Prefixes, bucket : Buckets, ttlSeconds : Ttls]

\* the outcomes of the capabilities an operation can reach
RenderEnvs == {e \in Envs : e.put /\ e.presign /\ e.get}
UploadEnvs == {e \in Envs : e.get}
S3Envs == {e \in Envs : e.presign}

InitOps ==
    /\ upload \in OpsUploads
    /\ vars_in \in OpsInputs
    /\ InitCommon

\* the request has not been answered yet
Pending == op = "none"

Answer(name, invoked, outcome) ==
    /\ op' = name
    /\ calls' = invoked
    /\ result' = outcome
    /\ UNCHANGED <<upload, vars_in, modified_docx, extracted, applied, tmp_dirs>>

\* a composed operation returns or raises
Returns(name, r) == Answer(name, r.calls, [exc |-> r.exc, msg |-> r.msg, val |-> r.val])

\* an endpoint sends its response
Responds(name, r) == Answer(name, r.calls, r.response)

\* a call of extract_variables_and_convert_pdf with None or a dict of str
ExtractVariablesAndConvertPdf ==
    /\ Pending
    /\ vars_in.t = "none" \/ (vars_in.t = "dict" /\ AllStr(vars_in.items))
    /\ \E listing \in ListingsOf(upload), env \in RenderEnvs :
          Returns("extract_variables_and_convert_pdf",
                  extract_variables_and_convert_pdf(upload, vars_in, listing, env))

\* a call of extract_convert_upload_get_url with None or a dict of str
ExtractConvertUploadGetUrl ==
    /\ Pending
    /\ vars_in.t = "none" \/ (vars_in.t = "dict" /\ AllStr(vars_in.items))
    /\ \E listing \in ListingsOf(upload), env \in UploadEnvs, s3_prefix \in Prefixes :
          Returns("extract_convert_upload_get_url",
                  extract_convert_upload_get_url(upload, vars_in, <<"assinaai-temp">>,
                                                 s3_prefix, DefaultTtl, listing, env))

\* a call of replace_from_s3_convert_and_upload; the source object is the upload
ReplaceFromS3ConvertAndUpload ==
    /\ Pending
    /\ \E env \in S3Envs, target_prefix \in Prefixes :
          Returns("replace_from_s3_convert_and_upload",
                  replace_from_s3_convert_and_upload(<<"source">>, <<"template.docx">>,
                        vars_in, <<"target">>, target_prefix, DefaultTtl, upload, env))

\* POST /api/process-document
ProcessDocumentEndpoint ==
    /\ Pending
    /\ \E req \in ProcessRequests, env \in RenderEnvs :
          Responds("process_document_endpoint",
                   process_document_endpoint(req, vars_in, upload, env))

\* POST /api/extract-convert-upload
ExtractConvertUploadEndpoint ==
    /\ Pending
    /\ \E req \in UploadRequests, listing \in ListingsOf(upload), env \in UploadEnvs :
          Responds("extract_convert_upload_endpoint",
                   extract_convert_upload_endpoint(req, vars_in, upload, listing, env))

NextOps ==
    \/ ExtractVariablesAndConvertPdf
    \/ ExtractConvertUploadGetUrl
    \/ ReplaceFromS3ConvertAndUpload
    \/ ProcessDocumentEndpoint
    \/ ExtractConvertUploadEndpoint

SpecOps == InitOps /\ [][NextOps]_vars

----------------------------------------------------------------------------
(* What the claims speak of *)

\* the mapping of the request
M == Strs(vars_in.items)

\* the paragraphs of the upload, and of the bytes replace_variables returned
Before == ParagraphsOf(upload.doc)
After == ParagraphsOf(modified_docx.doc)

\* replace_variables has run once on the upload, and returned
Replaced == applied = 1 /\ modified_docx.kind = "docx"

\* the text holds {{k}} for a key k of the mapping
HasWrappedKey(text, mapping) ==
    \E k \in DOMAIN mapping : \E i \in 1..Len(text) :
        /\ i + Len(k) + 3 <= Len(text)
        /\ text[i] = LB /\ text[i + 1] = LB
        /\ \A j \in 1..Len(k) : text[i + 1 + j] = k[j]
        /\ text[i + 2 + Len(k)] = RB /\ text[i + 3 + Len(k)] = RB

\* the text with every token of the scan whose name is a key replaced by its
\* value, and every other character kept in place
Substituted(text, mapping) ==
    LET parts == re_split(text)
    IN  Concat([n \in 1..Len(parts) |->
                  IF n % 2 = 0 /\ Slice2(parts[n]) \in DOMAIN mapping
                  THEN mapping[Slice2(parts[n])] ELSE parts[n]])

\* C1: whenever a paragraph's text holds {{k}} for a key k, its text after
\* _replace_in_paragraph is the original text with every scanned token whose
\* name is a key replaced by the value, and all other characters kept.
C1_SubstitutesScannedTokens ==
    Replaced =>
        \A i \in 1..Len(Before) :
            HasWrappedKey(ParagraphText(Before[i]), M) =>
                ParagraphText(After[i]) = Substituted(ParagraphText(Before[i]), M)

\* C2: a paragraph whose text holds no {{k}} for any key k has the same runs
\* (texts and styles) after replace_variables; with the empty mapping the
\* whole document is unchanged.
C2_UntouchedParagraphsKeepRuns ==
    Replaced =>
        /\ Len(After) = Len(Before)
        /\ \A i \in 1..Len(Before) :
              ~HasWrappedKey(ParagraphText(Before[i]), M) => After[i] = Before[i]
        /\ DOMAIN M = {} => modified_docx = upload

\* C2 happens: one paragraph of several runs is kept while another is rewritten
C2_Witness ==
    /\ Replaced
    /\ \E i, j \in 1..Len(Before) :
          /\ ~HasWrappedKey(ParagraphText(Before[i]), M)
          /\ Len(Before[i].runs) >= 2
          /\ After[j] # Before[j]

\* C3: every list extract_variables returns is strictly ascending in the order
\* of the names' texts, and all calls on the same document return the same list.
C3_ExtractSortedAndStable ==
    /\ Cardinality(extracted) <= 1
    /\ \A r \in extracted : \A i, j \in 1..Len(r) : i < j => StrLess(r[i], r[j])

\* C3 happens: two names are listed, and one of them occurs in two paragraphs
C3_Witness ==
    \E r \in extracted :
        /\ Len(r) >= 2
        /\ \E i, j \in 1..Len(Before) : \E n \in Range(r) :
              /\ i # j
              /\ n \in Range(re_findall(ParagraphText(Before[i])))
              /\ n \in Range(re_findall(ParagraphText(Before[j])))

\* the names the scan finds in one paragraph's text
TokensOf(paragraph) == Range(re_findall(ParagraphText(paragraph)))

\* a is b with some elements left out
RECURSIVE IsSubseq(_, _)
IsSubseq(a, b) ==
    IF a = <<>> THEN TRUE
    ELSE IF b = <<>> THEN FALSE
    ELSE IF Head(a) = Head(b) THEN IsSubseq(Tail(a), Tail(b))
    ELSE IsSubseq(a, Tail(b))

\* the values of the scanned tokens of the text whose names are keys, in order
KeyValues(text, mapping) ==
    LET names == SelectSeq(re_findall(text), LAMBDA n : n \in DOMAIN mapping)
    IN  [n \in 1..Len(names) |-> mapping[names[n]]]

RunTexts(paragraph) == [n \in 1..Len(paragraph.runs) |-> paragraph.runs[n].text]

\* C4: in every region kind (body, table cell, header, footer) a token {{k}}
\* that occurs in one paragraph only is listed by extract_variables and, when k
\* is a key, replaced by its value by replace_variables; an absent header or
\* footer raises no error.
C4_EveryRegionExtractedAndReplaced ==
    /\ \A r \in extracted : \A i \in 1..Len(Before) : \A k \in TokensOf(Before[i]) :
          (\A j \in 1..Len(Before) : j # i => k \notin TokensOf(Before[j]))
              => k \in Range(r)
    /\ Replaced =>
          \A i \in 1..Len(Before) :
              IsSubseq(KeyValues(ParagraphText(Before[i]), M), RunTexts(After[i]))
    /\ (upload.kind = "docx" /\ op \in {"extract_variables", "replace_variables"})
          => result.exc = "none"

\* C5: extract_variables lists exactly the names the scan finds in the text of
\* each single paragraph of the visited regions; the texts of two paragraphs of
\* one table cell are never combined into a name.
C5_ExtractScansEachParagraphAlone ==
    \A r \in extracted :
        Range(r) = UNION {TokensOf(Before[i]) : i \in 1..Len(Before)}

\* Python: text.replace(old, new)
RECURSIVE ReplaceEvery(_, _, _)
ReplaceEvery(text, old, new) ==
    IF text = <<>> THEN <<>>
    ELSE IF StartsWith(text, old)
         THEN new \o ReplaceEvery(SubSeq(text, Len(old) + 1, Len(text)), old, new)
    ELSE <<Head(text)>> \o ReplaceEvery(Tail(text), old, new)

\* C6: {{}} is a token of the empty name wherever it occurs: the scan lists ""
\* for it, a mapping with the key "" has every {{}} replaced by its value, and
\* the empty mapping leaves the text as it is.
C6_EmptyNameIsAToken ==
    /\ \A r \in extracted : \A i \in 1..Len(Before) :
          Contains(Wrap(<<>>), ParagraphText(Before[i])) => <<>> \in Range(r)
    /\ (Replaced /\ DOMAIN M = {<<>>}) =>
          \A i \in 1..Len(Before) :
              ParagraphText(After[i])
                  = ReplaceEvery(ParagraphText(Before[i]), Wrap(<<>>), M[<<>>])
    /\ (Replaced /\ DOMAIN M = {}) =>
          \A i \in 1..Len(Before) : ParagraphText(After[i]) = ParagraphText(Before[i])

\* the composed operations, and the variable list a successful call returned
ComposedOps == {"extract_variables_and_convert_pdf", "extract_convert_upload_get_url",
                "replace_from_s3_convert_and_upload"}
ReturnedVariables ==
    IF op = "extract_variables_and_convert_pdf" THEN result.val[1] ELSE result.val[1][2]
ReturnedListOps == {"extract_variables_and_convert_pdf", "extract_convert_upload_get_url"}

\* C7: the variable list returned by extract_variables_and_convert_pdf(D, M)
\* and by extract_convert_upload_get_url(D, M) is extract_variables(D) of the
\* original D, whatever the mapping M (absent, empty or non-empty).
C7_ListIsOfTheOriginal ==
    (op \in ReturnedListOps /\ result.exc = "none") =>
        \A listing \in ListingsOf(upload) :
            ReturnedVariables = extract_variables(upload, listing).val

\* a successful upload call whose mapping changed the names the document holds
C7_Witness ==
    /\ op = "extract_convert_upload_get_url"
    /\ result.exc = "none"
    /\ Truthy(vars_in)
    /\ LET final_docx == replace_variables(upload, Strs(vars_in.items)).val
       IN  \A listing \in ListingsOf(final_docx) :
               extract_variables(final_docx, listing).val # ReturnedVariables

\* the place of a capability in the order of the stages
Rank(cap) ==
    CASE cap = "get" -> 1 [] cap = "render" -> 2 [] cap = "put" -> 3 [] cap = "presign" -> 4

\* the capabilities a call that succeeds has invoked
StagesOf(name) ==
    CASE name = "extract_variables_and_convert_pdf" -> <<"render">>
      [] name = "extract_convert_upload_get_url" -> <<"render", "put", "presign">>
      [] name = "replace_from_s3_convert_and_upload" -> <<"get", "render", "put">>

\* C8: in a composed operation the capabilities are invoked in the order
\* download, render, put, presign, each at most once; nothing is invoked after
\* a stage that failed (an in-process stage included), and the call ends with
\* the error of the stage that failed.
C8_StagesInOrderOnceAndAbort ==
    op \in ComposedOps =>
        /\ \A i, j \in 1..Len(calls) : i < j => Rank(calls[i].cap) < Rank(calls[j].cap)
        /\ \A i \in 1..(Len(calls) - 1) : calls[i].ok
        /\ (calls # <<>> /\ ~calls[Len(calls)].ok) =>
              /\ result.exc = calls[Len(calls)].exc
              /\ result.msg = calls[Len(calls)].msg
        /\ (result.exc # "none" /\ \A i \in 1..Len(calls) : calls[i].ok) =>
              \A i \in 1..Len(calls) : calls[i].cap = "get"
        /\ result.exc = "none" =>
              /\ \A i \in 1..Len(calls) : calls[i].ok
              /\ [i \in 1..Len(calls) |-> calls[i].cap] = StagesOf(op)

\* the renderer failed on the document fetched from the store: nothing was put
C8_Witness ==
    /\ op = "replace_from_s3_convert_and_upload"
    /\ Len(calls) = 2
    /\ calls[2].cap = "render"
    /\ ~calls[2].ok
    /\ result.exc = calls[2].exc

\* C9: bytes that cannot be parsed as a document reach the caller of
\* /api/process-document as a client-input error (400), a renderer failure as
\* a server error (500); the two are never answered alike.
C9_MalformedIsClientError ==
    op = "process_document_endpoint" =>
        /\ upload.kind # "docx" => result.status = 400
        /\ (calls # <<>> /\ ~calls[Len(calls)].ok) => result.status = 500

\* the value the body of a JSON response holds under a key
RECURSIVE BodyGet(_, _)
BodyGet(body, key) ==
    IF body = <<>> THEN Missing
    ELSE IF Head(body)[1] = key THEN Head(body)[2]
    ELSE BodyGet(Tail(body), key)

\* C10: when extraction, replacement, rendering, put and presign all succeed,
\* /api/extract-convert-upload answers 200 with the extracted list under
\* 'variables' and the link under 'presignedUrl'; no error is answered once
\* the PDF object is in the store and the link is made.
C10_UploadEndpointAnswers200 ==
    (/\ op = "extract_convert_upload_endpoint"
     /\ Len(calls) = 3
     /\ \A i \in 1..3 : calls[i].ok) =>
        /\ result.status = 200
        /\ \A listing \in ListingsOf(upload) :
              BodyGet(result.body, "variables") = extract_variables(upload, listing).val
        /\ BodyGet(result.body, "presignedUrl") # Missing

\* C11: when download, replacement, rendering and upload all succeed,
\* replace_from_s3_convert_and_upload presigns the uploaded PDF and returns
\* the key of the PDF together with a presigned URL for that key.
C11_ReturnsKeyAndPresignedUrl ==
    (op = "replace_from_s3_convert_and_upload" /\ result.exc = "none") =>
        /\ BodyGet(result.val, "pdfKey") # Missing
        /\ \E i \in 1..Len(calls) : calls[i].cap = "presign" /\ calls[i].ok
        /\ \E name \in {"pdfUrl", "presignedUrl"} :
              /\ BodyGet(result.val, name) # Missing
              /\ BodyGet(result.val, name).key = BodyGet(result.val, "pdfKey")

----------------------------------------------------------------------------
(* normalize_variables_input, called directly *)

\* the longest list input
MaxItems == 2

\* the values and names a JSON input can hold
NormValues == {StrValue(<<"X">>), StrValue(<<>>), NoneValue, IntValue(<<"7">>)}
NormNames == {StrValue(<<"a">>), StrValue(<<"b">>), StrValue(<<>>), NoneValue, IntValue(<<"5">>)}
NormKeys == {<<"a">>, <<"b">>, <<>>}
NormItems ==
    {NotAnObject}
    \cup {Item(n, v) : n \in NormNames \cup {Missing}, v \in NormValues \cup {Missing}}
NormInputs ==
    {NoVariables, OtherInput}
    \cup {Dict(d) : d \in UNION {[K -> NormValues] : K \in SUBSET NormKeys}}
    \cup {List(l) : l \in SeqsUpTo(NormItems, MaxItems)}

InitNorm ==
    /\ upload = NoBytes
    /\ vars_in \in NormInputs
    /\ InitCommon

\* a call of normalize_variables_input
NormalizeVariablesInput ==
    /\ Pending
    /\ Returns("normalize_variables_input", With(normalize_variables_input(vars_in), <<>>))

NextNorm == NormalizeVariablesInput

SpecNorm == InitNorm /\ [][NextNorm]_vars

\* the call of normalize_variables_input has returned a mapping
Normalized == op = "normalize_variables_input" /\ result.exc = "none"

\* a value as text: null or missing is the empty text
AsText(v) == IF v.ty \in {"missing", "none"} THEN <<>> ELSE v.s

\* the records of a list input that have a name
Named(items) ==
    {i \in 1..Len(items) : items[i].isdict /\ items[i].name.ty \notin {"missing", "none"}}

\* C12: for a list of {name, value} records the returned mapping has exactly
\* the names of the records that have a name as keys, each with the text of a
\* value given under that name (missing or null: the empty text), and records
\* without a name raise nothing; for a mapping the key set is kept and every
\* value is coerced to text, null to the empty text.
C12_NormalizeKeepsNamesCoercesValues ==
    /\ (op = "normalize_variables_input" /\ vars_in.t \in {"dict", "list"}) => result.exc = "none"
    /\ (Normalized /\ vars_in.t = "list") =>
          /\ DOMAIN result.val = {vars_in.items[i].name.s : i \in Named(vars_in.items)}
          /\ \A k \in DOMAIN result.val :
                \E i \in Named(vars_in.items) :
                    /\ vars_in.items[i].name.s = k
                    /\ result.val[k] = AsText(vars_in.items[i].value)
    /\ (Normalized /\ vars_in.t = "dict") =>
          /\ DOMAIN result.val = DOMAIN vars_in.items
          /\ \A k \in DOMAIN result.val : result.val[k] = AsText(vars_in.items[k])

\* C13: normalize_variables_input raises its invalid-variables error for every
\* input that is neither a mapping nor a list of records (None, a number or a
\* text included) and raises nothing for a mapping or a list.
C13_NormalizeRaisesIffNotMappingOrList ==
    op = "normalize_variables_input" =>
        /\ vars_in.t \notin {"dict", "list"} => result.exc = "ValueError"
        /\ vars_in.t \in {"dict", "list"} => result.exc = "none"

----------------------------------------------------------------------------
(* convert_docx_to_pdf, called directly *)

RenderUploads ==
    OpsUploads \cup {DocxBytes(MkDoc(<<p>>, <<>>, <<>>, <<>>, <<>>)) : p \in PoolParagraphs}

InitRender ==
    /\ upload \in RenderUploads
    /\ vars_in = NoVariables
    /\ InitCommon

\* what a conversion leaves in the state
Converts(r) ==
    /\ op' = "convert_docx_to_pdf"
    /\ result' = Outcome(r)
    /\ calls' = r.steps
    /\ tmp_dirs' = tmp_dirs \cup r.dirs
    /\ UNCHANGED <<upload, vars_in, modified_docx, extracted, applied>>

\* a call of convert_docx_to_pdf on the upload
ConvertDocxToPdf ==
    /\ Pending
    /\ \E outcome \in RenderOutcomes, archive \in BOOLEAN, cleanup \in BOOLEAN :
          Converts(Conversion(upload, outcome, archive, cleanup))

NextRender == ConvertDocxToPdf

SpecRender == InitRender /\ [][NextRender]_vars

\* the conversion took this step, and how it went
Took(name, ok) == \E i \in 1..Len(calls) : calls[i] = Step(name, ok)

\* C14: convert_docx_to_pdf returns bytes only when the renderer exited with
\* code 0 and document.pdf exists, and then the content of that file; when the
\* renderer is not found, exits non-zero or leaves no document.pdf, the call
\* raises and returns no bytes.
C14_BytesOnlyFromACleanRun ==
    op = "convert_docx_to_pdf" =>
        /\ result.exc = "none" =>
              /\ Took("returncode", TRUE)
              /\ Took("exists", TRUE)
              /\ result.val = PdfBytes(upload)
        /\ (Took("find", FALSE) \/ Took("returncode", FALSE) \/ Took("exists", FALSE)) =>
              /\ result.exc # "none"
              /\ result.val = NoBytes

\* the renderer exited with code 0, document.pdf exists and its content is returned
C14_Witness ==
    /\ op = "convert_docx_to_pdf"
    /\ Took("returncode", TRUE)
    /\ Took("exists", TRUE)
    /\ result.exc = "none"
    /\ result.val = PdfBytes(upload)
    /\ upload.kind = "docx"

\* C19: when a call of convert_docx_to_pdf has ended, on whatever path, no
\* directory it made under /tmp is left; and when the renderer executable was
\* not found no directory was made at all.
C19_NoTempDirectoryIsLeft ==
    op = "convert_docx_to_pdf" =>
        /\ tmp_dirs = {}
        /\ Took("find", FALSE) =>
              ~(Took("mkdtemp", TRUE) \/ Took("makedirs", TRUE))

----------------------------------------------------------------------------
(* extract_variables and replace_variables on one paragraph of one run *)

\* the longest text of that paragraph
MaxText == 7

TextUploads ==
    {DocxBytes(MkDoc(<<Para(<<Run(text, "bold")>>)>>, <<>>, <<>>, <<>>, <<>>)) :
        text \in SeqsUpTo({LB, RB, "a"}, MaxText) \ {<<>>}}

TextMappings ==
    { [k \in {<<"a">>} |-> <<"X">>],
      [k \in {<<>>, <<RB>>} |-> <<"X">>] }

InitText ==
    /\ upload \in TextUploads
    /\ vars_in \in {StrDict(m) : m \in TextMappings}
    /\ InitCommon

SpecText == InitText /\ [][NextCore]_vars

\* the names of the parts the rewriter takes for tokens, in order
RECURSIVE TokenNames(_)
TokenNames(parts) ==
    IF parts = <<>> THEN <<>>
    ELSE IF IsToken(Head(parts)) THEN <<Slice2(Head(parts))>> \o TokenNames(Tail(parts))
    ELSE TokenNames(Tail(parts))

\* C15: the parts the rewriter splits a text into concatenate to the text, and
\* the names of the parts it takes for tokens are the names the scan of the
\* extractor finds in the text, in order; no part whose name would hold a }
\* is taken for a token.
C15_RewriterTokensAreScannedTokens ==
    Replaced =>
        \A i \in 1..Len(Before) :
            LET full_text == ParagraphText(Before[i])
                parts == re_split(full_text)
            IN  HasWrappedKey(full_text, M) =>
                    /\ Concat(parts) = full_text
                    /\ TokenNames(parts) = re_findall(full_text)
                    /\ \A n \in 1..Len(parts) :
                          IsToken(parts[n]) => RB \notin Range(Slice2(parts[n]))

\* text[i..i+1] is {{, resp. }}
OpensAt(text, i) == i + 1 <= Len(text) /\ text[i] = LB /\ text[i + 1] = LB
ClosesAt(text, i) == i + 1 <= Len(text) /\ text[i] = RB /\ text[i + 1] = RB

\* the {{ at i has no }} after it before the end of the text or a further {{
Unclosed(text, i) ==
    /\ OpensAt(text, i)
    /\ \A k \in (i + 2)..Len(text) :
          ClosesAt(text, k) => \E j \in (i + 2)..(k - 1) : OpensAt(text, j)

\* the index of the part of the split that holds position i of the text
RECURSIVE PartAt(_, _, _)
PartAt(parts, i, n) ==
    IF i <= Len(Head(parts)) THEN n
    ELSE PartAt(Tail(parts), i - Len(Head(parts)), n + 1)

\* C16: a {{ with no }} before the end of the text or before a further {{
\* starts no token: the scan has no match that begins there, and the rewriter
\* has that {{ in a part it emits as literal text.
C16_UnclosedOpeningIsLiteral ==
    \A i \in 1..Len(Before) :
        LET full_text == ParagraphText(Before[i])
        IN  \A p \in 1..Len(full_text) :
                Unclosed(full_text, p) =>
                    /\ extracted # {} =>
                          \A m \in Range(Matches(full_text, 1)) : m.start # p
                    /\ (Replaced /\ HasWrappedKey(full_text, M)) =>
                          ~IsToken(re_split(full_text)[PartAt(re_split(full_text), p, 1)])

\* the mapping sends a to the text {{b}} and has the key b
Chained == <<"a">> \in DOMAIN M /\ <<"b">> \in DOMAIN M /\ M[<<"a">>] = Wrap(<<"b">>)

\* C17: one replace_variables call rewrites a paragraph once and never scans
\* a substituted value again: when the mapping sends a to {{b}} and has the
\* key b, a paragraph with the text {{a}} ends with the text {{b}}, in every
\* region.
C17_SubstitutedValueIsNotRescanned ==
    (Replaced /\ Chained) =>
        \A i \in 1..Len(Before) :
            ParagraphText(Before[i]) = Wrap(<<"a">>) => ParagraphText(After[i]) = Wrap(<<"b">>)

\* neither a key nor a value of the mapping holds a brace
BraceFree(mapping) ==
    \A k \in DOMAIN mapping :
        /\ \A n \in 1..Len(k) : k[n] \notin {LB, RB}
        /\ \A n \in 1..Len(mapping[k]) : mapping[k][n] \notin {LB, RB}

\* replace_variables has been applied to the upload and then to its result
ReplacedTwice == applied = 2 /\ modified_docx.kind = "docx"

\* the paragraphs after the first application
Once == ParagraphsOf(replace_variables(upload, M).val.doc)

\* substitution is idempotent on the text of every paragraph, and the first
\* application leaves no scanned token whose name is a key
Idempotent ==
    /\ \A i \in 1..Len(Once) : ParagraphText(After[i]) = ParagraphText(Once[i])
    /\ \A i \in 1..Len(Once) : TokensOf(Once[i]) \cap DOMAIN M = {}

\* C18 as stated: for every mapping whose keys and values hold no brace,
\* replace_variables(replace_variables(D, M), M) has the paragraph texts of
\* replace_variables(D, M), and no token named by a key is left after the
\* first application.
C18_IdempotentAsStated ==
    (ReplacedTwice /\ BraceFree(M)) => Idempotent

\* C18, amended: the same for every mapping whose keys and values hold no
\* brace and whose values are not empty.
C18_IdempotentForNonEmptyValues ==
    (ReplacedTwice /\ BraceFree(M) /\ \A k \in DOMAIN M : M[k] # <<>>) => Idempotent

\* a second application after a first one that substituted a value
C18_Witness ==
    /\ ReplacedTwice
    /\ BraceFree(M)
    /\ \A k \in DOMAIN M : M[k] # <<>>
    /\ \E i \in 1..Len(Before) :
          /\ TokensOf(Before[i]) \cap DOMAIN M # {}
          /\ ParagraphText(Once[i]) # ParagraphText(Before[i])
          /\ ParagraphText(After[i]) = ParagraphText(Once[i])

====
